---- MODULE Spec2Model ----
(***************************************************************************)
(* Queue engine of brainstorm-helper: the useBrainstormQueue hook          *)
(* (hooks/useBrainstormQueue.ts).  React state is modelled by the value    *)
(* committed after each event; every event handler runs to completion and  *)
(* the re-render and the effects that follow it are part of the same step. *)
(* The processQueue callback a caller holds is the one of the latest       *)
(* render, so its captured `queue` and `agentContext` are the committed    *)
(* ones.  Three further parts have specifications of their own: the       *)
(* summary synthesizer (AgentProcessor.generateMarkdownSummary and its     *)
(* caller in the hook) under SummarySpec, the provider registry            *)
(* (LLMProviderManager, the adapters, switchProvider and updateApiKey)     *)
(* under RegistrySpec, and saveToStorage and loadFromStorage under         *)
(* StorageSpec.  HookSpec lets removeMessage and moveMessageUp be called   *)
(* with any id, SecondRoundSpec starts after one completed cycle,          *)
(* ReloadSpec follows the provider across page loads, and SessionSpec      *)
(* follows generation calls while the registry changes.                    *)
(***************************************************************************)
EXTENDS Integers, Sequences, FiniteSets, TLC

\* ---------------------------------------------------------------- bounds
MaxSubmits == 2          \* addMessage calls in one behaviour
MaxCalls == 3            \* processQueue invocations (manual or by timer)
Contents == {"a"}        \* texts a user can submit
Responses == {"r"}       \* texts a provider can answer

VARIABLES
    queue,          \* useState<QueueItem[]>
    messages,       \* useState<Message[]>
    stats,          \* useState<BrainstormStats>
    agentContext,   \* useState<AgentContext>
    isProcessing,   \* useState(false)
    autoProcess,    \* useState(true)
    processingRef,  \* useRef(false).current
    inflight,       \* suspended processQueue calls awaiting llmManager.generate, each with
                    \* its batch and the adapter and config generate took hold of
    recheckTimers,  \* pending setTimeout(..., 100) callbacks of finally blocks
    autoTimer,      \* TRUE iff the 500 ms timer of the auto-process effect is armed
    nextId,         \* source of fresh message ids (Date.now() + random suffix)
    requests,       \* log of llmManager.generate calls: the enumerated batch of each
    startedBy,      \* for each generate call, who invoked processQueue: "manual" or "timer"
    submits,        \* number of addMessage calls so far
    drainCalls,     \* number of processQueue invocations so far
    blocked,        \* processQueue invocations made while processingRef was set
    drainResult,    \* how the promise of the last settled processQueue call ended
    lastOutcome,    \* outcome of the last settled generation call
    late,           \* pairs <<id, n>>: message id was submitted while generate call n was pending
    failedIds,      \* ids of the messages of batches whose generation call failed
    promoted,       \* id passed to moveMessageUp when the last step was that call, else 0
    switchedOn,     \* ids queued when auto-process was switched on in the idle engine, until answered
    markdownSummary,   \* useState<MarkdownSummary | null>
    summaryResponse,   \* content of the response llmManager.generate gives the summary call
    summaryCall,       \* position of the generateMarkdownSummary call
    summaryReturned,   \* value the generateMarkdownSummary promise resolved with
    llmManager,        \* the LLMProviderManager: currentProvider, config, providers
    currentProvider,   \* useState<string>('llama')
    registryCall,      \* the last call made to the manager and what came of it
    modelFetch,        \* the fetchModelsForProvider call updateApiKey awaits, if any
    storage,           \* localStorage item 'brainstorm-helper-data'
    session            \* the persisted part of the hook state, with its time values

vars == <<queue, messages, stats, agentContext, isProcessing, autoProcess,
          processingRef, inflight, recheckTimers, autoTimer, nextId, requests,
          startedBy, submits, drainCalls, blocked, drainResult, lastOutcome, late, failedIds,
          promoted, switchedOn, markdownSummary, summaryResponse, summaryCall, summaryReturned,
          llmManager, currentProvider, registryCall, modelFetch, storage, session>>

summaryVars == <<markdownSummary, summaryResponse, summaryCall, summaryReturned>>

registryVars == <<llmManager, currentProvider, registryCall, modelFetch>>

storageVars == <<storage, session>>

engineVars == <<queue, messages, stats, agentContext, isProcessing, autoProcess,
                processingRef, inflight, recheckTimers, autoTimer, nextId, requests,
                startedBy, submits, drainCalls, blocked, drainResult, lastOutcome,
                late, failedIds, promoted, switchedOn>>

\* The ids of a set that are still waiting: in the history and either
\* unprocessed or part of a batch in flight.
Waiting(ids, msgs, flights) ==
    {id \in ids :
        \E k \in DOMAIN msgs :
            /\ msgs[k].id = id
            /\ \/ ~msgs[k].processed
               \/ \E i \in DOMAIN flights :
                     \E j \in DOMAIN flights[i].batch : flights[i].batch[j].id = id}

\* A step of the queue engine that is not a moveMessageUp call and no part
\* of a generateMarkdownSummary call.
NotPromoted ==
    /\ promoted' = 0
    /\ switchedOn' = Waiting(switchedOn, messages', inflight')

NoPromotion ==
    /\ NotPromoted
    /\ UNCHANGED <<summaryVars, registryVars, storageVars>>

\* ------------------------------------------------------------- helpers
RECURSIVE SeqCount(_, _)
SeqCount(s, id) ==
    IF s = <<>> THEN 0
    ELSE (IF Head(s) = id THEN 1 ELSE 0) + SeqCount(Tail(s), id)

RECURSIVE Flatten(_)
Flatten(ss) == IF ss = <<>> THEN <<>> ELSE Head(ss) \o Flatten(Tail(ss))

Max0(n) == IF n < 0 THEN 0 ELSE n

IdsOf(s) == [i \in DOMAIN s |-> s[i].id]
IdSet(s) == {s[i].id : i \in DOMAIN s}

IsUnprocessedUser(m) == m.type = "user" /\ ~m.processed

Unprocessed(msgs) == SelectSeq(msgs, IsUnprocessedUser)

Now == nextId

\* ---------------------------------------------------------------- Init
\* JavaScript values the summary code handles.
Null == [kind |-> "null"]
Undefined == [kind |-> "undefined"]
Str(text) == [kind |-> "string", text |-> text]
Arr(items) == [kind |-> "array", items |-> items]
Obj(fields) == [kind |-> "object", fields |-> fields]

\* ------------------------------------------------- provider registry
\* Keys of the providers map (initializeProviders).
ProviderNames == {"llama", "gemini", "openai"}

\* The adapters as constructed.  A credential is a string, "" when there is
\* none; `instance` tells the objects apart.
LlamaProvider(n) ==
    [class |-> "llama", type |-> "local", apiKey |-> "",
     models |-> <<"llama3.1", "llama3.1:8b", "llama3.1:70b">>,
     defaultModel |-> "llama3.1", instance |-> n]

GeminiProvider(apiKey, n) ==
    [class |-> "gemini", type |-> "external", apiKey |-> apiKey,
     models |-> <<>>, defaultModel |-> "", instance |-> n]

OpenAIProvider(apiKey, n) ==
    [class |-> "openai", type |-> "external", apiKey |-> apiKey,
     models |-> <<"gpt-4", "gpt-4-turbo", "gpt-3.5-turbo">>,
     defaultModel |-> "gpt-3.5-turbo", instance |-> n]

\* The config the hook constructs the manager with; temperature in tenths.
InitialConfig ==
    [provider |-> "llama", model |-> "llama3.1", temperature |-> 7,
     maxTokens |-> 2000, apiKey |-> ""]

\* new LLMProviderManager(config); `instances` counts the adapters made.
NewManager ==
    [currentProvider |-> "llama",
     config |-> InitialConfig,
     providers |-> [name \in ProviderNames |->
                      CASE name = "llama" -> LlamaProvider(1)
                        [] name = "gemini" -> GeminiProvider("", 2)
                        [] name = "openai" -> OpenAIProvider("", 3)],
     instances |-> 3]

NoCall == [op |-> "none"]

RegistryInit ==
    /\ llmManager = NewManager
    /\ currentProvider = "llama"
    /\ registryCall = NoCall
    /\ modelFetch = <<>>

\* The store and the session record are followed in StorageSpec only.
StorageIdle == storage = Null /\ session = Null

EngineInit ==
    /\ queue = <<>>
    /\ messages = <<>>
    /\ stats = [totalMessages |-> 0, processedMessages |-> 0,
                pendingMessages |-> 0, lastProcessedAt |-> 0]
    /\ agentContext = [conversationHistory |-> <<>>,
                       lastProcessedAt |-> 0,
                       processingStrategy |-> "accumulate"]
    /\ isProcessing = FALSE
    /\ autoProcess = TRUE
    /\ processingRef = FALSE
    /\ inflight = <<>>
    /\ recheckTimers = 0
    /\ autoTimer = FALSE
    /\ nextId = 1
    /\ requests = <<>>
    /\ startedBy = <<>>
    /\ submits = 0
    /\ drainCalls = 0
    /\ blocked = 0
    /\ drainResult = "none"
    /\ lastOutcome = "none"
    /\ late = {}
    /\ failedIds = {}
    /\ promoted = 0
    /\ switchedOn = {}

Init ==
    /\ EngineInit
    /\ markdownSummary = Null
    /\ summaryResponse = <<>>
    /\ summaryCall = "idle"
    /\ summaryReturned = Undefined
    /\ RegistryInit
    /\ StorageIdle

\* Variant of AutoEffect: the effect does not look at autoProcess (the hook
\* before the switch was added).
AutoEffect_NoSwitch(rerun, q, auto, ref, timer) ==
    IF rerun THEN Len(q) > 0 /\ ~ref ELSE timer

\* The auto-process effect.  It re-runs (clearing the timer it armed) when
\* queue, processQueue or autoProcess changed identity; processQueue changes
\* with queue and agentContext.
AutoEffect(rerun, q, auto, ref, timer) ==
    IF rerun THEN auto /\ Len(q) > 0 /\ ~ref ELSE timer

\* ---------------------------------------------------------- addMessage
NewMessage(id, content) ==
    [id |-> id, content |-> content, type |-> "user", processed |-> FALSE]

NewQueueItem(m) == [message |-> m, priority |-> 1]

\* Variant of Enqueue: the new entry is put in front of the queue.
Enqueue_Front(q, m) == <<NewQueueItem(m)>> \o q

\* Line 207.
Enqueue(q, m) == Append(q, NewQueueItem(m))

AddMessage ==
    \E c \in Contents :
        /\ submits < MaxSubmits
        /\ submits' = submits + 1
        /\ LET m == NewMessage(nextId, c) IN
            /\ queue' = Enqueue(queue, m)
            /\ messages' = Append(messages, m)
            /\ stats' = [stats EXCEPT !.totalMessages = @ + 1,
                                      !.pendingMessages = @ + 1]
            /\ nextId' = nextId + 1
            /\ autoTimer' = AutoEffect(TRUE, queue', autoProcess, processingRef, autoTimer)
            /\ late' = IF inflight # <<>> THEN late \cup {<<m.id, Len(requests)>>} ELSE late
        /\ UNCHANGED <<agentContext, isProcessing, autoProcess, processingRef,
                       inflight, recheckTimers, requests, startedBy, drainCalls, blocked,
                       drainResult, lastOutcome, failedIds>>
        /\ NoPromotion

\* -------------------------------------------------------- processQueue
\* Variant of StartsBatch: the in-flight guard is not consulted.
StartsBatch_NoRef(ref, q) == Len(q) > 0

\* Variant of StartsBatch: the queue length is not consulted.
StartsBatch_NoLength(ref, q) == ~ref

\* Line 231: the call goes on only when no batch is in flight and the queue
\* captured by the callback is not empty.
StartsBatch(ref, q) == ~ref /\ Len(q) > 0

\* Variant of QueuedMessages: only the head of the queue is taken.
QueuedMessages_HeadOnly(q) == <<q[1].message>>

\* Line 238: the batch is a snapshot of every queued message, in queue order.
QueuedMessages(q) == [i \in DOMAIN q |-> q[i].message]

\* Lines 248-253.
AgentMessages(batch) ==
    [i \in DOMAIN batch |->
        [id |-> batch[i].id,
         role |-> IF batch[i].type = "assistant" THEN "assistant" ELSE "user",
         content |-> batch[i].content]]

\* Variant of UpdatedAgentContext: the Context keeps the turns of the latest
\* batch only.
UpdatedAgentContext_LatestOnly(ctx, batch) ==
    [ctx EXCEPT !.conversationHistory = AgentMessages(batch),
                !.lastProcessedAt = Now,
                !.processingStrategy = "accumulate"]

\* Lines 256-261.
UpdatedAgentContext(ctx, batch) ==
    [ctx EXCEPT !.conversationHistory = @ \o AgentMessages(batch),
                !.lastProcessedAt = Now,
                !.processingStrategy = "accumulate"]

\* Lines 265-273.
MarkProcessed(msgs, batch) ==
    [i \in DOMAIN msgs |->
        IF \E j \in DOMAIN batch : batch[j].id = msgs[i].id
        THEN [msgs[i] EXCEPT !.processed = TRUE]
        ELSE msgs[i]]

\* n invocations of the same processQueue callback in immediate succession
\* (no render in between: all of them see the same captured queue and
\* agentContext).  `fromTimer` tells whether the auto-process timer made
\* the call.  Everything up to the await of llmManager.generate happens here.
ProcessQueueCalls(n, fromTimer) ==
    LET first == StartsBatch(processingRef, queue)
        second == n = 2 /\ StartsBatch(processingRef \/ first, queue)
        batch == QueuedMessages(queue)
        call == [batch |-> batch,
                 adapter |-> llmManager.providers[llmManager.currentProvider],
                 config |-> llmManager.config]
        issued == (IF first THEN <<call>> ELSE <<>>)
                     \o (IF second THEN <<call>> ELSE <<>>)
    IN  /\ drainCalls + n <= MaxCalls
        /\ drainCalls' = drainCalls + n
        /\ blocked' = blocked + (IF processingRef THEN n
                                 ELSE IF first /\ n = 2 THEN 1 ELSE 0)
        /\ IF issued # <<>>
           THEN /\ processingRef' = TRUE
                /\ isProcessing' = TRUE
                /\ queue' = <<>>
                /\ stats' = [stats EXCEPT !.pendingMessages = 0]
                /\ agentContext' = UpdatedAgentContext(agentContext, batch)
                /\ messages' = MarkProcessed(messages, batch)
                /\ inflight' = inflight \o issued
                /\ requests' = requests \o [i \in DOMAIN issued |-> IdsOf(batch)]
                /\ startedBy' = startedBy \o [i \in DOMAIN issued |->
                                                IF fromTimer THEN "timer" ELSE "manual"]
                /\ autoTimer' = AutoEffect(TRUE, queue', autoProcess, processingRef', autoTimer)
           ELSE /\ autoTimer' = (autoTimer /\ ~fromTimer)
                /\ UNCHANGED <<processingRef, isProcessing, queue, stats,
                               agentContext, messages, inflight, requests,
                               startedBy>>
        /\ UNCHANGED <<autoProcess, recheckTimers, nextId, submits,
                       drainResult, lastOutcome, late, failedIds>>
        /\ NoPromotion

\* drainNow: the caller invokes the callback once or twice in a row.
ProcessQueue == \E n \in 1..2 : ProcessQueueCalls(n, FALSE)

\* Lines 356-358: the armed 500 ms timer expires.  A 100 ms timer of a finally
\* block that was set earlier expires before it.
AutoTimerFires ==
    /\ autoTimer
    /\ recheckTimers = 0
    /\ ProcessQueueCalls(1, TRUE)

\* Variant of AssistantMessage: the response is added as a message still to
\* be processed.
AssistantMessage_Unprocessed(id, content) ==
    [id |-> id, content |-> content, type |-> "assistant", processed |-> FALSE]

\* Lines 306-311.
AssistantMessage(id, content) ==
    [id |-> id, content |-> content, type |-> "assistant", processed |-> TRUE]

\* Lines 305-320 followed by the finally block, on the hook's state.
ResolveCall(i, r) ==
    LET batch == inflight[i].batch
        assistantMessage == AssistantMessage(nextId, r)
    IN  /\ messages' = Append(messages, assistantMessage)
        /\ stats' = [stats EXCEPT !.processedMessages = @ + Len(batch),
                                  !.lastProcessedAt = Now]
        /\ nextId' = nextId + 1
        /\ processingRef' = FALSE
        /\ isProcessing' = FALSE
        /\ recheckTimers' = recheckTimers + 1
        /\ inflight' = SubSeq(inflight, 1, i - 1) \o SubSeq(inflight, i + 1, Len(inflight))
        /\ drainResult' = "resolved"
        /\ lastOutcome' = "ok"
        /\ UNCHANGED <<queue, agentContext, autoProcess, autoTimer, requests, startedBy,
                       submits, drainCalls, blocked, late, failedIds>>

\* Variant of Resolve: on completion every user message of the history is
\* marked processed, not only those of the batch.
Resolve_MarksAll(i, r) ==
    LET batch == inflight[i].batch
        assistantMessage == AssistantMessage(nextId, r)
    IN  /\ messages' = Append([k \in DOMAIN messages |->
                                  [messages[k] EXCEPT !.processed = TRUE]],
                              assistantMessage)
        /\ stats' = [stats EXCEPT !.processedMessages = @ + Len(batch),
                                  !.lastProcessedAt = Now]
        /\ nextId' = nextId + 1
        /\ processingRef' = FALSE
        /\ isProcessing' = FALSE
        /\ recheckTimers' = recheckTimers + 1
        /\ inflight' = SubSeq(inflight, 1, i - 1) \o SubSeq(inflight, i + 1, Len(inflight))
        /\ drainResult' = "resolved"
        /\ lastOutcome' = "ok"
        /\ UNCHANGED <<queue, agentContext, autoProcess, autoTimer, requests,
                       startedBy, submits, drainCalls, blocked, late, failedIds>>
        /\ NoPromotion

\* Variant of Resolve: the response is also appended to the Context as an
\* assistant turn.
Resolve_AppendsTurn(i, r) ==
    LET batch == inflight[i].batch
        assistantMessage == AssistantMessage(nextId, r)
    IN  /\ messages' = Append(messages, assistantMessage)
        /\ agentContext' = [agentContext EXCEPT !.conversationHistory =
                                @ \o AgentMessages(<<assistantMessage>>)]
        /\ stats' = [stats EXCEPT !.processedMessages = @ + Len(batch),
                                  !.lastProcessedAt = Now]
        /\ nextId' = nextId + 1
        /\ processingRef' = FALSE
        /\ isProcessing' = FALSE
        /\ recheckTimers' = recheckTimers + 1
        /\ inflight' = SubSeq(inflight, 1, i - 1) \o SubSeq(inflight, i + 1, Len(inflight))
        /\ drainResult' = "resolved"
        /\ lastOutcome' = "ok"
        /\ UNCHANGED <<queue, autoProcess, autoTimer, requests, startedBy,
                       submits, drainCalls, blocked, late, failedIds>>
        /\ NoPromotion

\* Lines 305-320 followed by the finally block: generate resolved.
Resolve(i, r) ==
    /\ ResolveCall(i, r)
    /\ NoPromotion

SettleSuccess == \E i \in DOMAIN inflight : \E r \in Responses : Resolve(i, r)

\* Lines 322-323 followed by the finally block, on the hook's state.
RejectCall(i) ==
    /\ processingRef' = FALSE
    /\ isProcessing' = FALSE
    /\ recheckTimers' = recheckTimers + 1
    /\ inflight' = SubSeq(inflight, 1, i - 1) \o SubSeq(inflight, i + 1, Len(inflight))
    /\ drainResult' = "resolved"
    /\ lastOutcome' = "failed"
    /\ failedIds' = failedIds \cup IdSet(inflight[i].batch)
    /\ UNCHANGED <<queue, messages, stats, agentContext, autoProcess, autoTimer,
                   nextId, requests, startedBy, submits, drainCalls, blocked, late>>

\* Variant of Reject: the failed batch is put back at the head of the queue
\* to be retried.
Reject_Retry(i) ==
    LET batch == inflight[i].batch IN
    /\ processingRef' = FALSE
    /\ isProcessing' = FALSE
    /\ recheckTimers' = recheckTimers + 1
    /\ inflight' = SubSeq(inflight, 1, i - 1) \o SubSeq(inflight, i + 1, Len(inflight))
    /\ drainResult' = "resolved"
    /\ lastOutcome' = "failed"
    /\ failedIds' = failedIds \cup IdSet(batch)
    /\ queue' = [k \in DOMAIN batch |-> [message |-> batch[k], priority |-> 1]] \o queue
    /\ messages' = [k \in DOMAIN messages |->
                       IF messages[k].id \in IdSet(batch)
                       THEN [messages[k] EXCEPT !.processed = FALSE]
                       ELSE messages[k]]
    /\ stats' = [stats EXCEPT !.pendingMessages = @ + Len(batch)]
    /\ autoTimer' = (autoProcess /\ Len(queue') > 0)
    /\ UNCHANGED <<agentContext, autoProcess, nextId, requests, startedBy,
                   submits, drainCalls, blocked, late>>
    /\ NoPromotion

\* Variant of Reject: the flags are cleared on the success path only.
Reject_NoFinally(i) ==
    /\ inflight' = SubSeq(inflight, 1, i - 1) \o SubSeq(inflight, i + 1, Len(inflight))
    /\ drainResult' = "resolved"
    /\ lastOutcome' = "failed"
    /\ failedIds' = failedIds \cup IdSet(inflight[i].batch)
    /\ UNCHANGED <<queue, messages, stats, agentContext, autoProcess, autoTimer,
                   processingRef, isProcessing, recheckTimers, nextId, requests,
                   startedBy, submits, drainCalls, blocked, late>>
    /\ NoPromotion

\* Lines 322-323 followed by the finally block: generate rejected.
Reject(i) ==
    /\ RejectCall(i)
    /\ NoPromotion

SettleFailure == \E i \in DOMAIN inflight : Reject(i)

\* Lines 329-349: the 100 ms callback of a finally block.
Requeued(msgs) ==
    [i \in DOMAIN Unprocessed(msgs) |-> NewQueueItem(Unprocessed(msgs)[i])]

\* Variant of RecheckTimer: the callback looks for nothing (the hook before
\* the post-drain check was added).
RecheckTimer_Noop ==
    /\ recheckTimers > 0
    /\ recheckTimers' = recheckTimers - 1
    /\ UNCHANGED <<queue, stats, autoTimer, messages, agentContext, isProcessing,
                   autoProcess, processingRef, inflight, nextId, requests,
                   startedBy, submits, drainCalls, blocked, drainResult,
                   lastOutcome, late, failedIds>>
    /\ NoPromotion

RecheckTimer ==
    /\ recheckTimers > 0
    /\ recheckTimers' = recheckTimers - 1
    /\ IF Len(Unprocessed(messages)) > 0
       THEN /\ queue' = queue \o Requeued(messages)
            /\ stats' = [stats EXCEPT !.pendingMessages = @ + Len(Unprocessed(messages))]
            /\ autoTimer' = AutoEffect(TRUE, queue', autoProcess, processingRef, autoTimer)
       ELSE UNCHANGED <<queue, stats, autoTimer>>
    /\ UNCHANGED <<messages, agentContext, isProcessing, autoProcess,
                   processingRef, inflight, nextId, requests, startedBy, submits,
                   drainCalls, blocked, drainResult, lastOutcome, late, failedIds>>
    /\ NoPromotion

\* -------------------------------------------------------- removeMessage
RemoveFromMessages(msgs, id) == SelectSeq(msgs, LAMBDA m : m.id # id)

\* Variant of RemoveFromQueue: the message is taken out of the history only.
RemoveFromQueue_Keep(q, id) == q

RemoveFromQueue(q, id) == SelectSeq(q, LAMBDA item : item.message.id # id)

\* Lines 410-427: removeMessage(messageId).
RemoveMessageCall(id) ==
    /\ messages' = RemoveFromMessages(messages, id)
    /\ queue' = RemoveFromQueue(queue, id)
    /\ stats' = [stats EXCEPT !.totalMessages = Max0(@ - 1),
                              !.pendingMessages = Max0(@ - 1)]
    /\ autoTimer' = AutoEffect(TRUE, queue', autoProcess, processingRef, autoTimer)
    /\ UNCHANGED <<agentContext, isProcessing, autoProcess, processingRef,
                   inflight, recheckTimers, nextId, requests, startedBy, submits,
                   drainCalls, blocked, drainResult, lastOutcome, late, failedIds>>
    /\ NoPromotion

\* The queue panel offers the control for every unprocessed user message.
RemoveMessage == \E id \in IdSet(Unprocessed(messages)) : RemoveMessageCall(id)

\* -------------------------------------------------------- moveMessageUp
\* findIndex: the first position (1-based) whose message has the id, 0 if none.
FindIndex(q, id) ==
    IF \E i \in DOMAIN q : q[i].message.id = id
    THEN CHOOSE i \in DOMAIN q :
            /\ q[i].message.id = id
            /\ \A j \in 1..(i - 1) : q[j].message.id # id
    ELSE 0

\* Lines 434-443.
SwapUp(q, id) ==
    LET k == FindIndex(q, id) IN
    IF k > 1
    THEN [i \in DOMAIN q |-> IF i = k THEN q[k - 1]
                             ELSE IF i = k - 1 THEN q[k]
                             ELSE q[i]]
    ELSE q

\* unprocessedMessages.find(msg => msg.id === id), <<>> when undefined.
FindMessage(msgs, id) ==
    LET hits == SelectSeq(msgs, LAMBDA m : m.id = id) IN
    IF hits = <<>> THEN <<>> ELSE <<Head(hits)>>

\* Lines 447-468.
ReorderMessages(msgs, q, id) ==
    LET unprocessedMessages == Unprocessed(msgs)
        processedMessages == SelectSeq(msgs, LAMBDA m : ~IsUnprocessedUser(m))
        newQueue == SwapUp(q, id)
    IN  IF FindIndex(q, id) > 1
        THEN Flatten([i \in DOMAIN newQueue |->
                        FindMessage(unprocessedMessages, newQueue[i].message.id)])
                \o processedMessages
        ELSE msgs

\* Lines 430-469: moveMessageUp(messageId).
MoveMessageUpCall(id) ==
    /\ queue' = SwapUp(queue, id)
    /\ messages' = ReorderMessages(messages, queue, id)
    /\ autoTimer' = AutoEffect(TRUE, queue', autoProcess, processingRef, autoTimer)
    /\ promoted' = id
    /\ UNCHANGED <<stats, agentContext, isProcessing, autoProcess,
                   processingRef, inflight, recheckTimers, nextId, requests, startedBy,
                   submits, drainCalls, blocked, drainResult, lastOutcome, late,
                   failedIds>>
    /\ switchedOn' = Waiting(switchedOn, messages', inflight')
    /\ UNCHANGED <<summaryVars, registryVars, storageVars>>

MoveMessageUp == \E id \in IdSet(Unprocessed(messages)) : MoveMessageUpCall(id)

\* ---------------------------------------------------- toggleAutoProcess
\* Variant of ToggleAutoProcess: the auto-process effect does not depend on
\* autoProcess and is not re-run by the switch.
ToggleAutoProcess_NoRerun ==
    /\ autoProcess' = ~autoProcess
    /\ autoTimer' = AutoEffect(FALSE, queue, autoProcess', processingRef, autoTimer)
    /\ UNCHANGED <<queue, messages, stats, agentContext, isProcessing,
                   processingRef, inflight, recheckTimers, nextId, requests, startedBy,
                   submits, drainCalls, blocked, drainResult, lastOutcome, late,
                   failedIds>>
    /\ switchedOn' = IF autoProcess' /\ ~processingRef
                     THEN Waiting(switchedOn \cup {queue[k].message.id : k \in DOMAIN queue},
                                  messages, inflight)
                     ELSE switchedOn
    /\ promoted' = 0
    /\ UNCHANGED <<summaryVars, registryVars, storageVars>>

\* Line 546 followed by the auto-process effect (354-361).
ToggleAutoProcess ==
    /\ autoProcess' = ~autoProcess
    /\ autoTimer' = AutoEffect(TRUE, queue, autoProcess', processingRef, autoTimer)
    /\ UNCHANGED <<queue, messages, stats, agentContext, isProcessing,
                   processingRef, inflight, recheckTimers, nextId, requests, startedBy,
                   submits, drainCalls, blocked, drainResult, lastOutcome, late,
                   failedIds>>
    /\ switchedOn' = IF autoProcess' /\ ~processingRef
                     THEN Waiting(switchedOn \cup {queue[k].message.id : k \in DOMAIN queue},
                                  messages, inflight)
                     ELSE switchedOn
    /\ promoted' = 0
    /\ UNCHANGED <<summaryVars, registryVars, storageVars>>

Next ==
    \/ AddMessage
    \/ ProcessQueue
    \/ AutoTimerFires
    \/ SettleSuccess
    \/ SettleFailure
    \/ RecheckTimer
    \/ RemoveMessage
    \/ MoveMessageUp
    \/ ToggleAutoProcess

Spec == Init /\ [][Next]_vars

\* ===================================================================
\* Properties
\* ===================================================================
ProgramState == <<queue, messages, stats, agentContext, isProcessing,
                  processingRef, inflight, requests>>

QueueIds(q) == [i \in DOMAIN q |-> q[i].message.id]

\* C1: at most one batch cycle is in flight at a time; a processQueue call
\* made while a generation request is pending issues no request and changes
\* no state, so two calls in immediate succession issue exactly one request.
C1_AtMostOneBatchInFlight ==
    /\ [](Len(inflight) <= 1)
    /\ [][Len(requests') - Len(requests)
            <= (drainCalls' - drainCalls) - (blocked' - blocked)]_vars
    /\ [][(drainCalls' # drainCalls /\ processingRef)
            => UNCHANGED ProgramState]_vars

C1_Witness == blocked > 0 /\ Len(inflight) = 1 /\ Len(requests) = 1

\* C2: stats.pendingMessages equals the number of user messages in history
\* with processed = false, in every reachable state.
C2_PendingMatchesHistory ==
    stats.pendingMessages = Len(Unprocessed(messages))

\* C3: no two queue entries wrap a message with the same id, and every queue
\* entry's message is an unprocessed message of the history.
C3_QueueEntriesUnique ==
    /\ \A i, j \in DOMAIN queue :
          i # j => queue[i].message.id # queue[j].message.id
    /\ \A i \in DOMAIN queue :
          \E k \in DOMAIN messages :
              /\ messages[k].id = queue[i].message.id
              /\ ~messages[k].processed

\* C4: a batch cycle that starts takes every queue entry present, in queue
\* order, leaves the queue empty and issues exactly one generation request.
C4_FullDrainOneRequest ==
    [][Len(requests') > Len(requests) =>
          /\ Len(queue) > 0
          /\ Len(requests') = Len(requests) + 1
          /\ requests'[Len(requests')] = QueueIds(queue)
          /\ Len(inflight') = Len(inflight) + 1
          /\ inflight'[Len(inflight')].batch = [i \in DOMAIN queue |-> queue[i].message]
          /\ queue' = <<>>]_vars

C4_Witness ==
    /\ Len(inflight) = 1
    /\ Len(inflight[1].batch) >= 2
    /\ queue = <<>>
    /\ requests[Len(requests)] = IdsOf(inflight[1].batch)

\* C5: every user message is drained at most once: its turn occurs at most
\* once in the Conversation Context, it is enumerated in at most one
\* generation request (and once there), and processedMessages counts it once.
C5_DrainedAtMostOnce ==
    /\ \A id \in 1..nextId :
          /\ SeqCount(IdsOf(agentContext.conversationHistory), id) <= 1
          /\ SeqCount(Flatten(requests), id) <= 1
    /\ stats.processedMessages <= Cardinality({Flatten(requests)[i] : i \in DOMAIN Flatten(requests)})

InHistory(id) == \E k \in DOMAIN messages : messages[k].id = id

ProcessedInHistory(id) ==
    \A k \in DOMAIN messages : messages[k].id = id => messages[k].processed

\* C6: a batch whose generation call fails is consumed and not retried: the
\* failing step appends no assistant message and leaves processedMessages,
\* the Context and the queue as they are, and from then on none of the
\* batch's messages is queued again, all of them stay processed and their
\* turns stay in the Context.
C6_FailedBatchConsumed ==
    /\ [][(Len(inflight') < Len(inflight) /\ lastOutcome' = "failed") =>
            /\ messages' = messages
            /\ stats'.processedMessages = stats.processedMessages
            /\ agentContext' = agentContext
            /\ queue' = queue]_vars
    /\ [](\A id \in failedIds :
            /\ \A i \in DOMAIN queue : queue[i].message.id # id
            /\ ProcessedInHistory(id)
            /\ id \in IdSet(agentContext.conversationHistory))

C6_Witness ==
    /\ lastOutcome = "failed"
    /\ recheckTimers = 0
    /\ \E id \in failedIds : InHistory(id)
    /\ Len(queue) > 0

\* What the hook hands to its caller (the state part of the returned object).
HookObservables ==
    [messages |-> messages, queue |-> queue, stats |-> stats,
     context |-> agentContext, isProcessing |-> isProcessing,
     autoProcess |-> autoProcess]

\* C7: when the generation call of a batch fails, the caller can observe a
\* failure signal: the promise of processQueue rejects, or the observables
\* of the hook carry an error.
C7_FailureSignalled ==
    lastOutcome = "failed" =>
        \/ drainResult = "rejected"
        \/ "error" \in DOMAIN HookObservables

\* C8: whenever the pending generation call settles the engine is Idle
\* again (processingRef and isProcessing false), and a trigger that then
\* finds a non-empty queue starts a new batch cycle.
C8_SettleReturnsToIdle ==
    /\ [][Len(inflight') < Len(inflight)
            => ~processingRef' /\ ~isProcessing']_vars
    /\ [](inflight = <<>> => ~processingRef /\ ~isProcessing)
    /\ [][(drainCalls' # drainCalls /\ inflight = <<>> /\ Len(queue) > 0)
            => Len(inflight') = 1 /\ isProcessing']_vars

C8_Witness ==
    /\ lastOutcome = "failed"
    /\ Len(inflight) = 1
    /\ Len(requests) = 2
    /\ isProcessing

\* Ids submitted while the generation call that is pending now was pending.
LateNow ==
    IF inflight = <<>> THEN {}
    ELSE {pr[1] : pr \in {q \in late : q[2] = Len(requests)}}

\* C9: a message submitted while a batch is in flight is not part of that
\* batch: as long as the generation call is pending, and in the step that
\* settles it, the message is not marked processed, gets no turn in the
\* Context and is not in the pending request.
C9_LateMessageNotInBatch ==
    /\ [](\A id \in LateNow :
            /\ \A i \in DOMAIN inflight : id \notin IdSet(inflight[i].batch)
            /\ \A k \in DOMAIN requests[Len(requests)] :
                   requests[Len(requests)][k] # id)
    /\ [][\A id \in LateNow :
            /\ \A k \in DOMAIN messages' :
                   messages'[k].id = id => ~messages'[k].processed
            /\ id \notin IdSet(agentContext'.conversationHistory)]_vars

C9_Witness ==
    /\ Len(inflight) = 1
    /\ Len(inflight[1].batch) = 1
    /\ LateNow # {}
    /\ \A id \in LateNow : InHistory(id)
    /\ Len(queue) = 1

\* ------------------------------------------------------------ liveness
\* Every issued generation call settles and the timers of the engine expire.
LiveSpec ==
    /\ Init
    /\ [][Next]_vars
    /\ WF_vars(SettleSuccess \/ SettleFailure)
    /\ WF_vars(RecheckTimer)
    /\ WF_vars(AutoTimerFires)

Drained(id) ==
    /\ id \in IdSet(agentContext.conversationHistory)
    /\ InHistory(id)
    /\ ProcessedInHistory(id)

\* Messages submitted during some generation call, still in history and not
\* drained yet.
LatePending == {pr[1] : pr \in {q \in late : InHistory(q[1]) /\ ~Drained(q[1])}}

\* C10: with auto-process enabled and every generation call settling, every
\* message submitted while a batch is in flight is eventually drained by a
\* later cycle and marked processed (unless the user removes it first),
\* with no further submit or manual drain.
C10_LateMessageEventuallyDrained ==
    (LatePending # {}) ~>
        \/ LatePending = {}
        \/ ~autoProcess
        \/ drainCalls >= MaxCalls

C10_Witness ==
    \E pr \in late :
        /\ Drained(pr[1])
        /\ Len(requests) > pr[2]
        /\ startedBy[pr[2] + 1] = "timer"
        /\ \E k \in DOMAIN requests[pr[2] + 1] : requests[pr[2] + 1][k] = pr[1]
        /\ submits = 2
        /\ autoProcess

\* ------------------------------------------------------------- triggers
\* A step in which the auto-process timer starts a batch cycle.
TimerStartsBatch ==
    /\ Len(requests') > Len(requests)
    /\ startedBy'[Len(startedBy')] = "timer"

\* A step in which the generation call of a batch returns a response.
BatchSucceeds == Len(inflight') < Len(inflight) /\ lastOutcome' = "ok"

\* C11: with auto-process enabled the submits made before the trigger delay
\* elapsed are coalesced: the timer starts exactly one batch cycle, it
\* contains every message submitted and not yet drained, no timer stays
\* armed, and when the cycle succeeds it appends exactly one assistant
\* message and processedMessages grows by the number of messages submitted.
C11_SubmitsCoalesced ==
    /\ [][TimerStartsBatch =>
            /\ autoProcess
            /\ Len(requests') = Len(requests) + 1
            /\ IdSet(Unprocessed(messages)) \subseteq IdSet(inflight'[1].batch)
            /\ ~autoTimer']_vars
    /\ [][(BatchSucceeds /\ startedBy[Len(startedBy)] = "timer") =>
            /\ Len(messages') = Len(messages) + 1
            /\ messages'[Len(messages')].type = "assistant"
            /\ stats'.processedMessages - stats.processedMessages
                  = Cardinality(IdSet(inflight[1].batch))]_vars

\* C12: when the generation call of a batch succeeds, exactly one message is
\* appended at the end of the history, with role assistant, processed = true
\* and the response's content; processedMessages grows by the batch size,
\* lastProcessedAt is stamped and no other history message changes.
C12_SuccessAppendsOneAssistant ==
    [][BatchSucceeds =>
          /\ Len(messages') = Len(messages) + 1
          /\ SubSeq(messages', 1, Len(messages)) = messages
          /\ messages'[Len(messages')].type = "assistant"
          /\ messages'[Len(messages')].processed
          /\ messages'[Len(messages')].content \in Responses
          /\ stats'.processedMessages
                = stats.processedMessages + Len(inflight[1].batch)
          /\ stats'.lastProcessedAt = Now
          /\ stats'.totalMessages = stats.totalMessages
          /\ stats'.pendingMessages = stats.pendingMessages]_vars

\* The session after one submit, one batch cycle that succeeded and the
\* 100 ms callback of its finally block.
OneCycleDone ==
    /\ queue = <<>>
    /\ messages = <<[NewMessage(1, "a") EXCEPT !.processed = TRUE],
                    AssistantMessage(2, "r")>>
    /\ stats = [totalMessages |-> 1, processedMessages |-> 1,
                pendingMessages |-> 0, lastProcessedAt |-> 2]
    /\ agentContext = [conversationHistory |-> AgentMessages(<<NewMessage(1, "a")>>),
                       lastProcessedAt |-> 2,
                       processingStrategy |-> "accumulate"]
    /\ isProcessing = FALSE
    /\ autoProcess = TRUE
    /\ processingRef = FALSE
    /\ inflight = <<>>
    /\ recheckTimers = 0
    /\ autoTimer = FALSE
    /\ nextId = 3
    /\ requests = <<<<1>>>>
    /\ startedBy = <<"timer">>
    /\ submits = 1
    /\ drainCalls = 1
    /\ blocked = 0
    /\ drainResult = "resolved"
    /\ lastOutcome = "ok"
    /\ late = {}
    /\ failedIds = {}
    /\ promoted = 0
    /\ switchedOn = {}

C12_Witness == OneCycleDone /\ summaryCall = "idle"

\* C13: while auto-process is disabled no batch cycle starts except by an
\* explicit processQueue call: no timer is armed (also when the switch was
\* turned off after a submit armed it), a cycle that starts was started by
\* the caller, and in every step without such a call no request is issued,
\* isProcessing stays false and a submit or a non-empty queue leaves the
\* queue non-empty (unless the user removes a message).
C13_NoCycleWhileAutoOff ==
    /\ [](~autoProcess => ~autoTimer)
    /\ [][(~autoProcess /\ Len(requests') > Len(requests))
            => startedBy'[Len(startedBy')] = "manual"]_vars
    /\ [][(~autoProcess /\ drainCalls' = drainCalls) =>
            /\ Len(requests') = Len(requests)
            /\ isProcessing' => isProcessing
            /\ submits' > submits => queue' # <<>>
            /\ (queue # <<>> /\ Len(messages') >= Len(messages))
                  => queue' # <<>>]_vars

C13_Witness ==
    /\ ~autoProcess
    /\ ~autoTimer
    /\ Len(queue) = 2
    /\ ~isProcessing
    /\ drainCalls = 0

\* C14: a trigger, manual or by the timer, that finds the queue empty is a
\* no-op: no generation call is issued, isProcessing and the in-flight flag
\* stay as they are, and history, queue, stats and Context are unchanged.
C14_EmptyQueueNoop ==
    [][(drainCalls' # drainCalls /\ queue = <<>>) =>
          /\ requests' = requests
          /\ inflight' = inflight
          /\ isProcessing' = isProcessing
          /\ processingRef' = processingRef
          /\ messages' = messages
          /\ queue' = queue
          /\ stats' = stats
          /\ agentContext' = agentContext]_vars

C14_Witness ==
    /\ drainCalls > 0
    /\ blocked = 0
    /\ requests = <<>>
    /\ queue = <<>>
    /\ ~isProcessing

\* C15: a submit succeeds in every state, also while a batch is in flight:
\* it appends exactly one user message with processed = false at the end of
\* the history and one entry wrapping it at the end of the queue, adds one
\* to totalMessages and to pendingMessages and changes nothing else.
C15_SubmitFrame ==
    /\ [](submits < MaxSubmits => ENABLED AddMessage)
    /\ [][submits' > submits =>
            /\ \E c \in Contents :
                  LET m == [id |-> nextId, content |-> c,
                            type |-> "user", processed |-> FALSE]
                  IN  /\ messages' = Append(messages, m)
                      /\ queue' = Append(queue, [message |-> m, priority |-> 1])
            /\ stats' = [stats EXCEPT !.totalMessages = @ + 1,
                                      !.pendingMessages = @ + 1]
            /\ UNCHANGED <<agentContext, isProcessing, processingRef,
                           autoProcess, inflight, requests, recheckTimers,
                           markdownSummary>>]_vars

C15_Witness ==
    /\ Len(inflight) = 1
    /\ isProcessing
    /\ late # {}
    /\ Len(queue) = 1
    /\ Len(messages) = 2
    /\ ~messages[2].processed
    /\ stats.pendingMessages = 1
    /\ stats.totalMessages = 2

\* ---------------------------------------------------------------- edits
\* First position of the queue whose message has the id, 0 if there is none.
PositionOf(q, id) ==
    IF \E i \in DOMAIN q : q[i].message.id = id
    THEN CHOOSE i \in DOMAIN q :
            /\ q[i].message.id = id
            /\ \A j \in DOMAIN q : q[j].message.id = id => i <= j
    ELSE 0

\* C16: moveMessageUp on the head of the queue leaves the queue unchanged;
\* on another queued message it exchanges the entry with its immediate
\* predecessor and leaves every other position as it is; afterwards the
\* unprocessed user messages of the history are in the order of the queue.
C16_PromoteSwapsWithPredecessor ==
    [][promoted' # 0 =>
          LET k == PositionOf(queue, promoted') IN
          /\ k = 1 => queue' = queue
          /\ k > 1 =>
                /\ Len(queue') = Len(queue)
                /\ queue'[k - 1] = queue[k]
                /\ queue'[k] = queue[k - 1]
                /\ \A i \in DOMAIN queue :
                      i \notin {k - 1, k} => queue'[i] = queue[i]
          /\ IdsOf(Unprocessed(messages')) = QueueIds(queue')]_vars

\* The id a step took out of the history, 0 if the step removed no message.
RemovedId ==
    IF Len(messages') < Len(messages)
    THEN CHOOSE id \in IdSet(messages) : id \notin IdSet(messages')
    ELSE 0

\* C17: removeMessage on a queued message lowers totalMessages and
\* pendingMessages by exactly one each and leaves no history message and no
\* queue entry with that id; all other messages and entries stay, in
\* their relative order.
C17_RemoveQueued ==
    [][Len(messages') < Len(messages) =>
          /\ \E k \in DOMAIN queue : queue[k].message.id = RemovedId
          /\ stats'.totalMessages = stats.totalMessages - 1
          /\ stats'.pendingMessages = stats.pendingMessages - 1
          /\ stats'.processedMessages = stats.processedMessages
          /\ messages' = SelectSeq(messages, LAMBDA m : m.id # RemovedId)
          /\ queue' = SelectSeq(queue, LAMBDA e : e.message.id # RemovedId)]_vars

C17_Witness ==
    /\ submits = 2
    /\ Len(messages) = 1
    /\ Len(queue) = 1
    /\ messages[1].id = 2
    /\ queue[1].message.id = 2
    /\ stats.totalMessages = 1
    /\ stats.pendingMessages = 1

\* -------------------------------------------------------------- Context
IsPrefix(s, t) == Len(s) <= Len(t) /\ SubSeq(t, 1, Len(s)) = s

\* C18: the turn list of the Conversation Context is append-only: in every
\* step the previous list is a prefix of the new one; no turn is removed,
\* replaced or reordered.
C18_ContextAppendOnly ==
    [][IsPrefix(agentContext.conversationHistory,
                agentContext'.conversationHistory)]_vars

C18_Witness ==
    /\ Len(requests) = 2
    /\ Len(agentContext.conversationHistory) = 2
    /\ IdsOf(agentContext.conversationHistory) = <<1, 2>>
    /\ requests = <<<<1>>, <<2>>>>

\* ===================================================================
\* Summary synthesizer: AgentProcessor.generateMarkdownSummary and the
\* generateMarkdownSummary callback of the hook
\* ===================================================================
MaxPreamble == 1         \* words of prose before the payload of a response

\* A response text is a sequence of lexical pieces: "p" a word of prose,
\* "F" a code fence line (``` or ```json), "{" and "}" the braces of an
\* object, "k" the members of a well-formed digest, "n" the literal null.
Prose(n) == [i \in 1..n |-> "p"]

Payloads == { <<>>, <<"{", "k", "}">>, <<"{", "}">>, <<"{", "k">>, <<"n">> }

Texts ==
    { Prose(a) \o (IF f THEN <<"F">> \o pl \o <<"F">> ELSE pl) \o Prose(b) :
        a \in 0..MaxPreamble, f \in BOOLEAN, pl \in Payloads, b \in 0..1 }

\* The object the members "k" denote.
DigestMembers ==
    [title |-> Str(<<"T">>), overview |-> Str(<<"O">>),
     keyInsights |-> Arr(<<"I">>), generatedIdeas |-> Arr(<<>>),
     actionItems |-> Arr(<<>>), questions |-> Arr(<<>>),
     nextSteps |-> Arr(<<>>)]

SyntaxError == [kind |-> "SyntaxError"]
TypeError == [kind |-> "TypeError"]

\* JSON.parse: the value of the text, SyntaxError when the whole text is not
\* one JSON value.
JsonParse(text) ==
    IF text = <<"n">> THEN Null
    ELSE IF text = <<"{", "}">> THEN Obj(<<>>)
    ELSE IF text = <<"{", "k", "}">> THEN Obj(DigestMembers)
    ELSE SyntaxError

\* parseMarkdownSummary: JSON.parse, and the fallback object when it throws.
ParseMarkdownSummary(content) ==
    IF JsonParse(content) # SyntaxError
    THEN JsonParse(content)
    ELSE Obj([title |-> Str(<<"Brainstorm Session">>),
              overview |-> Str(content),
              keyInsights |-> Arr(<<>>), generatedIdeas |-> Arr(<<>>),
              actionItems |-> Arr(<<>>), questions |-> Arr(<<>>),
              nextSteps |-> Arr(<<>>)])

\* parsed.name for a value that is not null or undefined.
Get(v, name) ==
    IF v.kind = "object" /\ name \in DOMAIN v.fields
    THEN v.fields[name]
    ELSE Undefined

Falsy(v) ==
    \/ v.kind \in {"undefined", "null"}
    \/ v.kind = "string" /\ v.text = <<>>

\* a || b
Or(a, b) == IF Falsy(a) THEN b ELSE a

\* AgentProcessor.generateMarkdownSummary once generate has returned
\* `content`: the document, or the TypeError of reading a property of null.
GenerateMarkdownSummary(content) ==
    LET parsed == ParseMarkdownSummary(content) IN
    IF parsed.kind = "null" THEN TypeError
    ELSE [kind |-> "document",
          title |-> Or(Get(parsed, "title"), Str(<<"Brainstorm Session - ", "date">>)),
          overview |-> Or(Get(parsed, "overview"), Str(<<"No overview available">>)),
          keyInsights |-> Or(Get(parsed, "keyInsights"), Arr(<<>>)),
          generatedIdeas |-> Or(Get(parsed, "generatedIdeas"), Arr(<<>>)),
          actionItems |-> Or(Get(parsed, "actionItems"), Arr(<<>>)),
          questions |-> Or(Get(parsed, "questions"), Arr(<<>>)),
          nextSteps |-> Or(Get(parsed, "nextSteps"), Arr(<<>>)),
          createdAt |-> Now]

ListFields ==
    <<"keyInsights", "generatedIdeas", "actionItems", "questions", "nextSteps">>

\* formatMarkdownSummary: title, overview and a section for every list that
\* is not empty.
FormatMarkdownSummary(summary) ==
    [kind |-> "markdown",
     title |-> summary.title,
     overview |-> summary.overview,
     sections |-> SelectSeq(ListFields, LAMBDA f : Len(summary[f].items) > 0),
     generatedOn |-> summary.createdAt]

ErrorText == Str(<<"Error generating markdown summary">>)

\* Variant of SkipsSummary: the call goes on whatever the Context holds.
SkipsSummary_Never(ctx) == FALSE

\* Line 473: nothing is done for a Context without turns.
SkipsSummary(ctx) == Len(ctx.conversationHistory) = 0

\* The hook's generateMarkdownSummary up to the await.
GenerateMarkdownSummaryCall ==
    /\ summaryCall = "idle"
    /\ IF SkipsSummary(agentContext)
       THEN /\ summaryCall' = "skipped"
            /\ summaryReturned' = Str(<<>>)
       ELSE /\ summaryCall' = "awaiting"
            /\ summaryReturned' = summaryReturned
    /\ UNCHANGED <<markdownSummary, summaryResponse>>
    /\ UNCHANGED <<engineVars, registryVars, storageVars>>

\* llmManager.generate returns the response; the processor builds the
\* document and the hook stores and formats it, or catches what was thrown.
SummaryResolves ==
    /\ summaryCall = "awaiting"
    /\ summaryCall' = "resolved"
    /\ LET summary == GenerateMarkdownSummary(summaryResponse) IN
       IF summary.kind = "document"
       THEN /\ markdownSummary' = summary
            /\ summaryReturned' = FormatMarkdownSummary(summary)
       ELSE /\ markdownSummary' = markdownSummary
            /\ summaryReturned' = ErrorText
    /\ UNCHANGED summaryResponse
    /\ UNCHANGED <<engineVars, registryVars, storageVars>>

\* llmManager.generate rejects.
SummaryRejects ==
    /\ summaryCall = "awaiting"
    /\ summaryCall' = "rejected"
    /\ summaryReturned' = ErrorText
    /\ UNCHANGED <<markdownSummary, summaryResponse>>
    /\ UNCHANGED <<engineVars, registryVars, storageVars>>

\* The call is made in a new session or after one batch cycle; the response
\* the provider will give is any of the texts.
SummaryInit ==
    /\ EngineInit \/ OneCycleDone
    /\ markdownSummary = Null
    /\ summaryResponse \in Texts
    /\ summaryCall = "idle"
    /\ summaryReturned = Undefined
    /\ RegistryInit
    /\ StorageIdle

SummaryNext ==
    \/ GenerateMarkdownSummaryCall
    \/ SummaryResolves
    \/ SummaryRejects

SummarySpec == SummaryInit /\ [][SummaryNext]_vars

\* The text holds a well-formed object: by itself, inside a fenced block or
\* between prose.
HoldsObject(text) ==
    \E i \in DOMAIN text : \E j \in i..Len(text) :
        JsonParse(SubSeq(text, i, j)).kind = "object"

EmptyLists(summary) ==
    \A i \in DOMAIN ListFields : summary[ListFields[i]] = Arr(<<>>)

\* C19: for every response text of a successful generation call the summary
\* call returns a document and never an error; when no structured object
\* can be parsed out of the text the overview holds the raw text and every
\* list field is empty.
C19_SummaryNeverFails ==
    summaryCall = "resolved" =>
        /\ summaryReturned # ErrorText
        /\ markdownSummary.kind = "document"
        /\ ~HoldsObject(summaryResponse) =>
              /\ markdownSummary.overview = Str(summaryResponse)
              /\ EmptyLists(markdownSummary)

\* A preamble of prose, then the well-formed payload in a fenced block.
FencedPayload == <<"p", "F", "{", "k", "}", "F">>

\* C20: a response whose well-formed payload is wrapped in a fenced code
\* block and preceded by prose is parsed into a document whose keyInsights
\* are those of the payload, not into the fallback document.
C20_FencedPayloadParsed ==
    (summaryCall = "resolved" /\ summaryResponse = FencedPayload) =>
        /\ markdownSummary.kind = "document"
        /\ markdownSummary.keyInsights = DigestMembers.keyInsights
        /\ markdownSummary.overview # Str(summaryResponse)

\* C21: generateMarkdownSummary called while the Conversation Context has no
\* turn returns the empty text, issues no generation request and leaves
\* the latest summary document as it was.
C21_ZeroTurnsNoop ==
    [][(summaryCall = "idle" /\ summaryCall' # "idle"
          /\ Len(agentContext.conversationHistory) = 0) =>
            /\ summaryCall' = "skipped"
            /\ summaryReturned' = Str(<<>>)
            /\ markdownSummary' = markdownSummary
            /\ UNCHANGED engineVars]_vars

C21_Witness ==
    /\ summaryCall = "skipped"
    /\ agentContext.conversationHistory = <<>>
    /\ summaryReturned = Str(<<>>)
    /\ markdownSummary = Null

\* ===================================================================
\* Provider registry: LLMProviderManager, the adapters, and the hook's
\* switchProvider and updateApiKey
\* ===================================================================
MaxKeyUpdates == 2       \* updateApiKey calls in one behaviour

EmptyRecord == [x \in {} |-> x]

\* Requests a caller can pass to generate and generateStream: the model is
\* left out, empty or set; temperature (tenths) and maxTokens are left out,
\* zero or positive.
Requests ==
    { [messages |-> "prompt"] @@ m @@ t :
        m \in {EmptyRecord, [model |-> ""], [model |-> "gpt-4"]},
        t \in {EmptyRecord, [temperature |-> 0, maxTokens |-> 0],
               [temperature |-> 3, maxTokens |-> 100]} }

\* What the backend does with a generate request: the fetch rejects, the
\* status is not ok, the body carries text, the body carries a candidate
\* with empty text, no candidate at all, or a candidate without text that
\* the content policy stopped.
Replies == {"network-error", "http-error", "text", "empty", "nothing", "blocked"}

HasCurrent(m) == m.currentProvider \in DOMAIN m.providers

\* Variant of LlmRequest: temperature and maxTokens are defaulted with ||.
LlmRequest_FalsyDefaults(request, config) ==
    [messages |-> request.messages,
     model |-> IF "model" \in DOMAIN request /\ request.model # ""
               THEN request.model ELSE config.model,
     temperature |-> IF "temperature" \in DOMAIN request /\ request.temperature # 0
                     THEN request.temperature ELSE config.temperature,
     maxTokens |-> IF "maxTokens" \in DOMAIN request /\ request.maxTokens # 0
                   THEN request.maxTokens ELSE config.maxTokens]

\* Lines 140-145 and 165-170: model with ||, the others with ??.
LlmRequest(request, config) ==
    [messages |-> request.messages,
     model |-> IF "model" \in DOMAIN request /\ request.model # ""
               THEN request.model ELSE config.model,
     temperature |-> IF "temperature" \in DOMAIN request
                     THEN request.temperature ELSE config.temperature,
     maxTokens |-> IF "maxTokens" \in DOMAIN request
                   THEN request.maxTokens ELSE config.maxTokens]

\* An Error thrown before the adapter's try block, one re-thrown by its
\* catch as 'Failed to generate response: ...', and a returned LLMResponse.
Failure(msg) == [kind |-> "error", message |-> msg, wrapped |-> FALSE]
Wrapped(msg) == [kind |-> "error", message |-> msg, wrapped |-> TRUE]
Response(content, model, finishReason) ==
    [kind |-> "response", content |-> content, model |-> model,
     finishReason |-> finishReason]

InSeq(x, seq) == \E i \in DOMAIN seq : seq[i] = x

\* LlamaProvider.generate.
LlamaGenerate(provider, req, reply) ==
    CASE reply = "network-error" -> Wrapped("fetch failed")
      [] reply = "http-error" -> Wrapped("HTTP error! status")
      [] reply = "text" -> Response("r", req.model, "stop")
      [] OTHER -> Response("", req.model, "stop")

\* OpenAIProvider.generate.
OpenAIGenerate(provider, req, reply) ==
    IF provider.apiKey = "" THEN Failure("OpenAI API key not provided")
    ELSE CASE reply = "network-error" -> Wrapped("fetch failed")
           [] reply = "http-error" -> Wrapped("OpenAI API error")
           [] reply = "nothing" -> Wrapped("No response from OpenAI API")
           [] reply = "text" -> Response("r", req.model, "stop")
           [] reply = "empty" -> Response("", req.model, "stop")
           [] reply = "blocked" -> Response("", req.model, "content_filter")

\* GeminiProvider.generate.
GeminiGenerate(provider, req, reply) ==
    IF provider.apiKey = "" THEN Failure("Gemini API key not provided")
    ELSE IF provider.models = <<>> \/ provider.defaultModel = ""
    THEN Failure("No models available")
    ELSE IF req.model # "" /\ ~InSeq(req.model, provider.models)
    THEN Failure("Model not available")
    ELSE CASE reply = "network-error" -> Wrapped("fetch failed")
           [] reply = "http-error" -> Wrapped("Gemini API error")
           [] reply = "text" -> Response("r", req.model, "STOP")
           [] reply = "blocked" -> Wrapped("Response blocked by safety filters")
           [] OTHER -> Wrapped("No response from Gemini API")

\* provider.generate(llmRequest), by the class of the adapter.
AdapterGenerate(provider, req, reply) ==
    CASE provider.class = "llama" -> LlamaGenerate(provider, req, reply)
      [] provider.class = "openai" -> OpenAIGenerate(provider, req, reply)
      [] provider.class = "gemini" -> GeminiGenerate(provider, req, reply)

\* Every adapter class defines generateStream.
HasGenerateStream(provider) == provider.class \in {"llama", "openai", "gemini"}

\* LLMProviderManager.generate.
ManagerGenerate(m, request, reply) ==
    IF ~HasCurrent(m) THEN Failure("Provider not found")
    ELSE AdapterGenerate(m.providers[m.currentProvider],
                         LlmRequest(request, m.config), reply)

\* LLMProviderManager.generateStream: the request handed to the adapter's
\* generator, or the Error thrown.
ManagerGenerateStream(m, request) ==
    IF ~HasCurrent(m) THEN Failure("Provider not found")
    ELSE IF ~HasGenerateStream(m.providers[m.currentProvider])
    THEN Failure("Provider does not support streaming")
    ELSE [kind |-> "stream", sent |-> LlmRequest(request, m.config)]

\* LLMProviderManager.setProvider and the boolean it returns.
SetProviderResult(m, name) == name \in DOMAIN m.providers

SetProvider(m, name) ==
    IF SetProviderResult(m, name) THEN [m EXCEPT !.currentProvider = name] ELSE m

\* Variant of UpdateConfig: the adapters are never rebuilt.
UpdateConfig_KeepAdapters(m, newConfig) ==
    [m EXCEPT !.config = newConfig @@ m.config]

\* LLMProviderManager.updateConfig: the merge, and fresh gemini and openai
\* adapters when the partial config carries a truthy apiKey.
UpdateConfig(m, newConfig) ==
    IF "apiKey" \in DOMAIN newConfig /\ newConfig.apiKey # ""
    THEN [m EXCEPT !.config = newConfig @@ m.config,
                   !.providers = [name \in DOMAIN m.providers |->
                       CASE name = "gemini" -> GeminiProvider(newConfig.apiKey, m.instances + 1)
                         [] name = "openai" -> OpenAIProvider(newConfig.apiKey, m.instances + 2)
                         [] OTHER -> m.providers[name]],
                   !.instances = m.instances + 2]
    ELSE [m EXCEPT !.config = newConfig @@ m.config]

\* Names a caller can hand to switchProvider; AnthropicProvider exists but
\* is not registered.
SwitchNames == ProviderNames \cup {"anthropic"}

\* The body of switchProvider: the registry's setProvider, and on success
\* the hook's provider id and the session model.
SwitchProviderCall ==
    \E name \in SwitchNames :
         /\ IF SetProviderResult(llmManager, name)
            THEN /\ currentProvider' = name
                 /\ llmManager' =
                      UpdateConfig(SetProvider(llmManager, name),
                                   [provider |-> name,
                                    model |-> llmManager.providers[name].defaultModel])
            ELSE UNCHANGED <<currentProvider, llmManager>>
         /\ registryCall' = [op |-> "switchProvider", name |-> name,
                             result |-> SetProviderResult(llmManager, name)]

\* Variant of SwitchProvider: the session model is left alone.
SwitchProvider_KeepModel ==
    /\ \E name \in SwitchNames :
         /\ llmManager' = SetProvider(llmManager, name)
         /\ currentProvider' = IF SetProviderResult(llmManager, name)
                                THEN name ELSE currentProvider
         /\ registryCall' = [op |-> "switchProvider", name |-> name,
                             result |-> SetProviderResult(llmManager, name)]
    /\ UNCHANGED <<modelFetch, engineVars, summaryVars, storageVars>>

\* switchProvider of the hook.
SwitchProvider ==
    /\ SwitchProviderCall
    /\ UNCHANGED <<modelFetch, engineVars, summaryVars, storageVars>>

\* Credentials a user can type: none, blanks only, a key.
Keys == {"", " ", "k"}

Trim(key) == IF key = " " THEN "" ELSE key

\* updateApiKey of the hook up to its await: the config update, and the
\* model fetch started for the hook's current provider on the adapter the
\* registry holds at that moment.
UpdateApiKey ==
    /\ llmManager.instances < 3 + 2 * MaxKeyUpdates
    /\ \E apiKey \in Keys :
         /\ llmManager' = UpdateConfig(llmManager, [apiKey |-> apiKey])
         /\ modelFetch' =
              IF Trim(apiKey) # ""
              THEN Append(modelFetch,
                          [provider |-> currentProvider,
                           instance |-> llmManager'.providers[currentProvider].instance])
              ELSE modelFetch
         /\ registryCall' = [op |-> "updateApiKey", apiKey |-> apiKey]
    /\ UNCHANGED <<currentProvider, engineVars, summaryVars, storageVars>>

\* The catalog a dynamic-model backend answers with.
FetchedModels == <<"gemini-pro", "gemini-flash">>

RemoveAt(seq, i) == [j \in 1..(Len(seq) - 1) |-> IF j < i THEN seq[j] ELSE seq[j + 1]]

\* What fetchModelsForProvider resolves with (the empty list stands for a
\* rejection, which the caller only logs): a dynamic-model adapter fetches
\* its catalog, a static one answers with its list.
FetchModelsResult(provider, outcome) ==
    IF outcome = "fails" THEN <<>>
    ELSE IF provider.class = "gemini" THEN FetchedModels
    ELSE provider.models

\* The adapter object after fetchModels resolved on it.
WithModels(provider, models) ==
    IF provider.class = "gemini" /\ models # <<>>
    THEN [provider EXCEPT !.models = models, !.defaultModel = models[1]]
    ELSE provider

\* The rest of updateApiKey after the await: the fetched catalog lands on
\* the adapter object the fetch was started on, and the first model becomes
\* the session model.
FetchSettles ==
    /\ \E i \in DOMAIN modelFetch, outcome \in {"models", "fails"} :
         LET f == modelFetch[i]
             held == llmManager.providers[f.provider]
             models == FetchModelsResult(held, outcome)
             m1 == IF held.instance = f.instance
                   THEN [llmManager EXCEPT !.providers[f.provider] = WithModels(held, models)]
                   ELSE llmManager
         IN /\ llmManager' = IF models # <<>> /\ HasCurrent(m1)
                              THEN UpdateConfig(m1, [model |-> models[1]])
                              ELSE m1
            /\ modelFetch' = RemoveAt(modelFetch, i)
            /\ registryCall' = [op |-> "fetchModels", provider |-> f.provider,
                                models |-> models]
    /\ UNCHANGED <<currentProvider, engineVars, summaryVars, storageVars>>

\* A call of llmManager.generate with its outcome.
Generate ==
    /\ \E request \in Requests, reply \in Replies :
         registryCall' = [op |-> "generate", request |-> request, reply |-> reply,
                          result |-> ManagerGenerate(llmManager, request, reply)]
    /\ UNCHANGED <<llmManager, currentProvider, modelFetch, engineVars,
                   summaryVars, storageVars>>

\* A call of llmManager.generateStream up to the adapter's generator.
GenerateStream ==
    /\ \E request \in Requests :
         registryCall' = [op |-> "generateStream", request |-> request,
                          result |-> ManagerGenerateStream(llmManager, request)]
    /\ UNCHANGED <<llmManager, currentProvider, modelFetch, engineVars,
                   summaryVars, storageVars>>

\* What the backend does with an availability probe.
ProbeReplies == {"network-error", "http-error", "ok"}

Returned(value) == [thrown |-> FALSE, value |-> value]
Thrown == [thrown |-> TRUE, value |-> FALSE]

\* Variant of IsAvailable: a rejected fetch escapes.
IsAvailable_NoCatch(provider, reply) ==
    IF provider.class # "llama" /\ provider.apiKey = "" THEN Returned(FALSE)
    ELSE IF reply = "network-error" THEN Thrown
    ELSE Returned(reply = "ok")

\* isAvailable of the three adapters: false without a credential where one
\* is required, false when the fetch rejects, response.ok otherwise.
IsAvailable(provider, reply) ==
    IF provider.class # "llama" /\ provider.apiKey = "" THEN Returned(FALSE)
    ELSE IF reply = "network-error" THEN Returned(FALSE)
    ELSE Returned(reply = "ok")

\* The registry's Map keeps insertion order.
ProviderOrder == <<"llama", "gemini", "openai">>

\* LLMProviderManager.getAvailableProviders: Promise.all over the probes.
GetAvailableProvidersResult(m, replies) ==
    LET probes == [i \in DOMAIN ProviderOrder |->
                     IsAvailable(m.providers[ProviderOrder[i]], replies[ProviderOrder[i]])]
    IN IF \E i \in DOMAIN probes : probes[i].thrown
       THEN Failure("probe rejected")
       ELSE [kind |-> "list",
             items |-> [i \in DOMAIN ProviderOrder |->
                          [name |-> ProviderOrder[i],
                           available |-> probes[i].value,
                           type |-> m.providers[ProviderOrder[i]].type]]]

GetAvailableProviders ==
    /\ \E replies \in [ProviderNames -> ProbeReplies] :
         registryCall' = [op |-> "getAvailableProviders", replies |-> replies,
                          result |-> GetAvailableProvidersResult(llmManager, replies)]
    /\ UNCHANGED <<llmManager, currentProvider, modelFetch, engineVars,
                   summaryVars, storageVars>>

RegistryNext ==
    \/ SwitchProvider
    \/ UpdateApiKey
    \/ FetchSettles
    \/ Generate
    \/ GenerateStream
    \/ GetAvailableProviders

RegistrySpec == Init /\ [][RegistryNext]_vars

\* -------------------------------------------------------------------
\* Properties of the registry (RegistrySpec)
\* -------------------------------------------------------------------
RequestFields == {"model", "temperature", "maxTokens"}

IsStreamCall == registryCall.op = "generateStream" /\ registryCall.result.kind = "stream"

C23_SwitchProvider ==
    [][registryCall'.op = "switchProvider" =>
          LET name == registryCall'.name
          IN IF name \in DOMAIN llmManager.providers
             THEN /\ registryCall'.result = TRUE
                  /\ llmManager'.currentProvider = name
                  /\ currentProvider' = name
                  /\ llmManager'.providers = llmManager.providers
                  /\ llmManager'.config.provider = name
                  /\ llmManager'.config.model = llmManager.providers[name].defaultModel
             ELSE /\ registryCall'.result = FALSE
                  /\ UNCHANGED <<llmManager, currentProvider>>]_vars

\* A switch to the unregistered "anthropic" refused after OpenAI had been
\* made the active adapter.
C23_Witness ==
    /\ registryCall = [op |-> "switchProvider", name |-> "anthropic", result |-> FALSE]
    /\ llmManager.currentProvider = "openai"
    /\ currentProvider = "openai"
    /\ llmManager.config.model = "gpt-3.5-turbo"

\* The adapter a generate call was dispatched to.
ActiveAdapter == llmManager.providers[llmManager.currentProvider]

\* C24: generate of every adapter fails when the backend answers with a
\* non-success status, when a required credential is missing, and when the
\* answer carries no usable text; an answer stopped by the content policy
\* fails with a reason of its own.
C24_GenerateFails ==
    registryCall.op = "generate" =>
        /\ (\/ registryCall.reply \in {"network-error", "http-error", "empty", "nothing", "blocked"}
            \/ ActiveAdapter.type = "external" /\ ActiveAdapter.apiKey = "")
              => registryCall.result.kind = "error"
        /\ (registryCall.reply = "blocked" /\ registryCall.result.kind = "error"
                /\ registryCall.result.wrapped)
              => registryCall.result.message
                   \notin {"No response from Gemini API", "No response from OpenAI API"}

\* C25: getAvailableProviders never rejects and answers with one entry per
\* registered adapter, in registration order, whose availability is a
\* boolean: true exactly when the adapter has the credential it needs and
\* the backend answered the probe with a success status.
C25_ProbesNeverFail ==
    registryCall.op = "getAvailableProviders" =>
        /\ registryCall.result.kind = "list"
        /\ Len(registryCall.result.items) = Cardinality(DOMAIN llmManager.providers)
        /\ \A i \in DOMAIN registryCall.result.items :
             LET item == registryCall.result.items[i]
                 adapter == llmManager.providers[item.name]
             IN /\ item.name = ProviderOrder[i]
                /\ item.type = adapter.type
                /\ item.available \in BOOLEAN
                /\ item.available <=>
                     /\ registryCall.replies[item.name] = "ok"
                     /\ adapter.type = "local" \/ adapter.apiKey # ""

\* A listing taken while the local backend is unreachable, Gemini answers
\* with an error status and OpenAI, holding a credential, answers.
C25_Witness ==
    /\ registryCall.op = "getAvailableProviders"
    /\ registryCall.replies = [name \in ProviderNames |->
                                 CASE name = "llama" -> "network-error"
                                   [] name = "gemini" -> "http-error"
                                   [] OTHER -> "ok"]
    /\ llmManager.providers["openai"].apiKey = "k"
    /\ registryCall.result.kind = "list"
    /\ registryCall.result.items[1].available = FALSE
    /\ registryCall.result.items[3].available = TRUE

\* ===================================================================
\* Persistence: saveToStorage, loadFromStorage and the two mount effects
\* ===================================================================
\* `session` is the persisted part of the hook state with the time values
\* the engine model leaves out; ids stand for the clock reading at which a
\* record was made.  `storage` is the value under STORAGE_KEY.

\* A Date object, and the string JSON.stringify turns it into.
Date(ms) == [kind |-> "date", ms |-> ms]
IsoString(ms) == [kind |-> "string", iso |-> ms]
InvalidDate == [kind |-> "date", ms |-> -1]

\* Date.prototype.toJSON as applied by JSON.stringify; a property holding
\* undefined is left out of the text.
ToJSON(value) == IF value.kind = "date" THEN IsoString(value.ms) ELSE value

\* new Date(value) for a string read back from the text.
NewDate(value) ==
    IF value.kind = "date" THEN value
    ELSE IF value.kind = "string" THEN Date(value.iso)
    ELSE InvalidDate

Timestamped(m) == m @@ [timestamp |-> Date(m.id)]

StoredItem(m) == NewQueueItem(Timestamped(m)) @@ [addedAt |-> Date(m.id)]

\* The hook state right after construction.
DefaultSession ==
    [messages |-> <<>>,
     queue |-> <<>>,
     stats |-> [totalMessages |-> 0, processedMessages |-> 0,
                pendingMessages |-> 0, lastProcessedAt |-> Undefined],
     context |-> [lastContextUpdate |-> Date(0)],
     agentContext |-> [conversationHistory |-> <<>>,
                       lastProcessedAt |-> Date(0),
                       processingStrategy |-> "accumulate"],
     markdownSummary |-> Null,
     currentProvider |-> "llama",
     autoProcess |-> TRUE]

\* Hook states along a session: nothing yet, one message waiting, one cycle
\* completed, and a further message waiting after that cycle.
Histories ==
    LET done == <<Timestamped([NewMessage(1, "a") EXCEPT !.processed = TRUE]),
                  Timestamped(AssistantMessage(2, "r"))>>
        turns == [i \in {1} |-> AgentMessages(<<NewMessage(1, "a")>>)[i]
                                   @@ [timestamp |-> Date(1)]]
        after == [conversationHistory |-> turns, lastProcessedAt |-> Date(2),
                  processingStrategy |-> "accumulate"]
    IN { [messages |-> <<>>, queue |-> <<>>, stats |-> DefaultSession.stats,
          agentContext |-> DefaultSession.agentContext],
         [messages |-> <<Timestamped(NewMessage(1, "a"))>>,
          queue |-> <<StoredItem(NewMessage(1, "a"))>>,
          stats |-> [totalMessages |-> 1, processedMessages |-> 0,
                     pendingMessages |-> 1, lastProcessedAt |-> Undefined],
          agentContext |-> DefaultSession.agentContext],
         [messages |-> done, queue |-> <<>>,
          stats |-> [totalMessages |-> 1, processedMessages |-> 1,
                     pendingMessages |-> 0, lastProcessedAt |-> Date(2)],
          agentContext |-> after],
         [messages |-> Append(done, Timestamped(NewMessage(3, "a"))),
          queue |-> <<StoredItem(NewMessage(3, "a"))>>,
          stats |-> [totalMessages |-> 2, processedMessages |-> 1,
                     pendingMessages |-> 1, lastProcessedAt |-> Date(2)],
          agentContext |-> after] }

StoredSummary == [title |-> "t", createdAt |-> Date(3)]

\* A summary exists only once the Context has turns.
Sessions ==
    { sn \in { h @@ [context |-> DefaultSession.context, markdownSummary |-> sm,
                     currentProvider |-> p, autoProcess |-> ap] :
                 h \in Histories, sm \in {Null, StoredSummary},
                 p \in ProviderNames, ap \in BOOLEAN } :
        sn.markdownSummary = Null \/ sn.agentContext.conversationHistory # <<>> }

\* JSON.stringify(dataToSave): every Date in the tree becomes its string.
Stringify(sn) ==
    [kind |-> "json",
     notArrays |-> {},
     messages |-> [i \in DOMAIN sn.messages |->
                     [sn.messages[i] EXCEPT !.timestamp = ToJSON(@)]],
     queue |-> [i \in DOMAIN sn.queue |->
                  [sn.queue[i] EXCEPT !.addedAt = ToJSON(@),
                                      !.message.timestamp = ToJSON(@)]],
     stats |-> [sn.stats EXCEPT !.lastProcessedAt = ToJSON(@)],
     context |-> [sn.context EXCEPT !.lastContextUpdate = ToJSON(@)],
     agentContext |->
         [sn.agentContext EXCEPT
             !.lastProcessedAt = ToJSON(@),
             !.conversationHistory =
                 [i \in DOMAIN @ |-> [@[i] EXCEPT !.timestamp = ToJSON(@)]]],
     markdownSummary |-> IF sn.markdownSummary = Null THEN Null
                         ELSE [sn.markdownSummary EXCEPT !.createdAt = ToJSON(@)],
     currentProvider |-> sn.currentProvider,
     autoProcess |-> sn.autoProcess]

\* A text that is not JSON.
Garbage == [kind |-> "garbage"]

\* Whether the parsed record holds an array under `field`; notArrays names
\* the fields of a damaged record that hold some other truthy value.
IsArray(blob, field) == field \notin blob.notArrays

\* loadFromStorage applied to hook state `current`: the setters run in the
\* order of lines 156-163, and an exception leaves through the catch with
\* the setters already called still in effect.
LoadFromStorage(blob, current) ==
    IF blob = Null \/ blob = Garbage THEN current
    ELSE IF ~IsArray(blob, "messages") THEN current
    ELSE
    LET s1 == [current EXCEPT !.messages =
                  [i \in DOMAIN blob.messages |->
                      [blob.messages[i] EXCEPT !.timestamp = NewDate(@)]]]
    IN IF ~IsArray(blob, "queue") THEN s1
       ELSE
       [s1 EXCEPT
          !.queue = [i \in DOMAIN blob.queue |->
                       [blob.queue[i] EXCEPT !.addedAt = NewDate(@),
                                             !.message.timestamp = NewDate(@)]],
          !.stats = [blob.stats EXCEPT !.lastProcessedAt =
                        IF @ = Undefined THEN Undefined ELSE NewDate(@)],
          !.context = [blob.context EXCEPT !.lastContextUpdate = NewDate(@)],
          !.agentContext = [blob.agentContext EXCEPT !.lastProcessedAt = NewDate(@)],
          !.markdownSummary = IF blob.markdownSummary = Null
                              THEN s1.markdownSummary ELSE blob.markdownSummary,
          !.currentProvider = blob.currentProvider,
          !.autoProcess = blob.autoProcess]

UnchangedOutsideStorage == UNCHANGED <<engineVars, summaryVars, registryVars>>

\* The save effect after a change of the hook state.
SaveToStorage ==
    /\ storage' = Stringify(session)
    /\ UNCHANGED session
    /\ UnchangedOutsideStorage

\* A page load: the load effect reads the record, the save effect of the
\* first render writes the defaults, and the save effect of the render that
\* follows the load writes the loaded state.
Mount ==
    /\ session' = LoadFromStorage(storage, DefaultSession)
    /\ storage' = Stringify(session')
    /\ UnchangedOutsideStorage

\* The record is removed or damaged outside the program.
StoreDamaged ==
    /\ storage' \in {Null, Garbage}
                     \cup (IF storage \in {Null, Garbage} THEN {}
                           ELSE {[storage EXCEPT !.notArrays = {"messages"}],
                                 [storage EXCEPT !.notArrays = {"queue"}]})
    /\ UNCHANGED session
    /\ UnchangedOutsideStorage

StorageInit ==
    /\ EngineInit
    /\ markdownSummary = Null /\ summaryResponse = <<>>
    /\ summaryCall = "idle" /\ summaryReturned = Undefined
    /\ RegistryInit
    /\ session \in Sessions
    /\ storage = Stringify(session)

StorageNext == SaveToStorage \/ Mount \/ StoreDamaged

StorageSpec == StorageInit /\ [][StorageNext]_vars

\* -------------------------------------------------------------------
\* Properties of persistence (StorageSpec)
\* -------------------------------------------------------------------
IsTime(value) == value.kind = "date"

\* Every time-valued field of the hook state holds a Date.
AllTimesAreDates(sn) ==
    /\ \A i \in DOMAIN sn.messages : IsTime(sn.messages[i].timestamp)
    /\ \A i \in DOMAIN sn.queue :
         IsTime(sn.queue[i].addedAt) /\ IsTime(sn.queue[i].message.timestamp)
    /\ sn.stats.lastProcessedAt = Undefined \/ IsTime(sn.stats.lastProcessedAt)
    /\ IsTime(sn.context.lastContextUpdate)
    /\ IsTime(sn.agentContext.lastProcessedAt)
    /\ \A i \in DOMAIN sn.agentContext.conversationHistory :
         IsTime(sn.agentContext.conversationHistory[i].timestamp)
    /\ sn.markdownSummary = Null \/ IsTime(sn.markdownSummary.createdAt)

\* C26: a page load over the record saved from the current state brings
\* back the message history and the queue as they were (ids, content,
\* order, processed flags, times), and every time-valued field of the loaded
\* state is a time value again.
C26_SaveLoadRoundTrip ==
    [][(storage = Stringify(session) /\ session' # session) =>
          /\ session'.messages = session.messages
          /\ session'.queue = session.queue
          /\ AllTimesAreDates(session')]_vars

Damaged(blob) ==
    IF blob = Null \/ blob = Garbage THEN TRUE ELSE blob.notArrays # {}

\* C27: a page load over a missing or damaged record leaves the hook state
\* at its defaults; no part of a damaged record is applied.
C27_LoadAllOrNothing ==
    [][(session' # session /\ Damaged(storage)) => session' = DefaultSession]_vars

\* -------------------------------------------------------------------
\* Further properties of the queue engine (Spec)
\* -------------------------------------------------------------------
\* C28: the in-flight guard stays set until the re-enqueue check that ends a
\* drain has run: no generation request is issued while a re-enqueue check
\* is still pending.
C28_NoCycleBeforeRecheck ==
    [][Len(requests') > Len(requests) => recheckTimers = 0]_vars

C30_ResponseInContext ==
    [][BatchSucceeds =>
          LET reply == messages'[Len(messages')]
              turns == agentContext'.conversationHistory
          IN /\ reply.type = "assistant"
             /\ turns # <<>>
             /\ turns[Len(turns)].role = "assistant"
             /\ turns[Len(turns)].id = reply.id
             /\ turns[Len(turns)].content = reply.content]_vars

\* ===================================================================
\* The hook's callbacks called with any message id (HookSpec)
\* ===================================================================
\* removeMessage and moveMessageUp take the id as given: ids of processed
\* messages, of assistant messages and ids no message has are inputs too.
CallableIds == 1..nextId

RemoveMessageById == \E id \in CallableIds : RemoveMessageCall(id)

MoveMessageUpById == \E id \in CallableIds : MoveMessageUpCall(id)

HookNext ==
    \/ AddMessage
    \/ ProcessQueue
    \/ AutoTimerFires
    \/ SettleSuccess
    \/ SettleFailure
    \/ RecheckTimer
    \/ RemoveMessageById
    \/ MoveMessageUpById
    \/ ToggleAutoProcess

HookSpec == Init /\ [][HookNext]_vars

InHistoryNext(id) == \E k \in DOMAIN messages' : messages'[k].id = id

\* C31: while a batch is in flight its head message stays where it is: no
\* step takes it out of the history, and a promotion naming it leaves
\* history, queue and stats unchanged.
C31_InFlightHeadUntouched ==
    [][\A i \in DOMAIN inflight :
          LET head == inflight[i].batch[1].id IN
          /\ InHistory(head) => InHistoryNext(head)
          /\ promoted' = head => UNCHANGED <<messages, queue, stats>>]_vars

\* The id names a message that is in the queue and is an unprocessed user
\* message of the history.
NamesQueuedUnprocessed(id) ==
    /\ \E k \in DOMAIN queue : queue[k].message.id = id
    /\ \E k \in DOMAIN messages : messages[k].id = id /\ IsUnprocessedUser(messages[k])

\* C35: totalMessages and pendingMessages go down by a removal only when the
\* removal takes a queued unprocessed message out of the history; a
\* removal naming anything else, or named a second time, leaves them as
\* they are.
C35_RemoveUnknownKeepsStats ==
    [][(\/ stats'.totalMessages < stats.totalMessages
        \/ stats'.pendingMessages < stats.pendingMessages /\ requests' = requests)
          => \E id \in CallableIds : NamesQueuedUnprocessed(id) /\ ~InHistoryNext(id)]_vars

\* C33: the engine never reports more processed messages than messages ever
\* enqueued.
C33_ProcessedAtMostTotal == stats.processedMessages <= stats.totalMessages

\* The engine after one completed cycle (the program state of OneCycleDone)
\* at the start of a further stretch of MaxSubmits submits and MaxCalls
\* calls.
SecondRoundInit ==
    /\ queue = <<>>
    /\ messages = <<[NewMessage(1, "a") EXCEPT !.processed = TRUE],
                    AssistantMessage(2, "r")>>
    /\ stats = [totalMessages |-> 1, processedMessages |-> 1,
                pendingMessages |-> 0, lastProcessedAt |-> 2]
    /\ agentContext = [conversationHistory |-> AgentMessages(<<NewMessage(1, "a")>>),
                       lastProcessedAt |-> 2,
                       processingStrategy |-> "accumulate"]
    /\ isProcessing = FALSE
    /\ autoProcess = TRUE
    /\ processingRef = FALSE
    /\ inflight = <<>>
    /\ recheckTimers = 0
    /\ autoTimer = FALSE
    /\ nextId = 3
    /\ requests = <<>>
    /\ startedBy = <<>>
    /\ submits = 0
    /\ drainCalls = 0
    /\ blocked = 0
    /\ drainResult = "none"
    /\ lastOutcome = "none"
    /\ late = {}
    /\ failedIds = {}
    /\ promoted = 0
    /\ switchedOn = {}
    /\ markdownSummary = Null
    /\ summaryResponse = <<>>
    /\ summaryCall = "idle"
    /\ summaryReturned = Undefined
    /\ RegistryInit
    /\ StorageIdle

SecondRoundSpec == SecondRoundInit /\ [][Next]_vars

HistoryPosition(msgs, id) == CHOOSE k \in DOMAIN msgs : msgs[k].id = id

\* C34: a promotion adds no message to the history and drops none, leaves
\* no id twice in it, and every processed user message and every assistant
\* message stays before the messages it was before and after those it was
\* after.
C34_PromoteKeepsHistory ==
    [][promoted' # 0 =>
          /\ Len(messages') = Len(messages)
          /\ \A id \in IdSet(messages) :
                Cardinality({k \in DOMAIN messages' : messages'[k].id = id}) = 1
          /\ \A i, j \in DOMAIN messages :
                (i < j /\ (~IsUnprocessedUser(messages[i]) \/ ~IsUnprocessedUser(messages[j])))
                  => HistoryPosition(messages', messages[i].id)
                       < HistoryPosition(messages', messages[j].id)]_vars

\* The messages that were queued when auto-process was switched on and are
\* not marked processed yet.
SwitchedOnPending ==
    {id \in switchedOn :
        \E k \in DOMAIN messages : messages[k].id = id /\ ~messages[k].processed}

\* C39: switching auto-process on in the idle engine with a non-empty queue
\* arms the trigger timer, and with every generation call settling and the
\* timers expiring the messages queued at that moment are eventually
\* marked processed (or removed by the user) with no further submit, unless
\* auto-process is switched off again.
C39_SwitchOnStartsCycle ==
    /\ [][(~autoProcess /\ autoProcess' /\ queue # <<>> /\ ~processingRef) => autoTimer']_vars
    /\ (SwitchedOnPending # {}) ~>
          \/ SwitchedOnPending = {}
          \/ ~autoProcess
          \/ drainCalls >= MaxCalls

\* The message queued while auto-process was off is in the batch the timer
\* started after the switch, the only cycle so far.
C39_Witness ==
    /\ switchedOn = {1}
    /\ submits = 1
    /\ autoProcess
    /\ requests = <<<<1>>>>
    /\ startedBy = <<"timer">>
    /\ Len(inflight) = 1
    /\ \A k \in DOMAIN messages : messages[k].processed

\* -------------------------------------------------------------------
\* Credentials and model catalogs (RegistrySpec)

ExternalNames == {name \in ProviderNames : llmManager.providers[name].type = "external"}

\* C38: right after an updateApiKey call every registered external adapter
\* holds the credential stored in the session config, the empty string
\* included.
C38_CredentialsInSync ==
    registryCall.op = "updateApiKey" =>
        \A name \in ExternalNames :
            llmManager.providers[name].apiKey = llmManager.config.apiKey

ActiveAdapterNext == llmManager'.providers[llmManager'.currentProvider]

\* C37: with a dynamic-model backend active, a fetch that succeeds for it
\* leaves its catalog on the adapter later generate calls use, a further
\* credential update keeps that catalog there, and a failing fetch changes
\* nothing of the registry.
C37_FetchedModelsHeld ==
    [][/\ (/\ registryCall'.op = "fetchModels"
           /\ registryCall'.models # <<>>
           /\ registryCall'.provider = llmManager.currentProvider
           /\ ActiveAdapter.class = "gemini")
          => ActiveAdapterNext.models = registryCall'.models
       /\ (/\ registryCall'.op = "updateApiKey"
           /\ ActiveAdapter.class = "gemini"
           /\ ActiveAdapter.models # <<>>)
          => ActiveAdapterNext.models = ActiveAdapter.models
       /\ (registryCall'.op = "fetchModels" /\ registryCall'.models = <<>>)
          => llmManager' = llmManager]_vars

\* -------------------------------------------------------------------
\* The provider across page loads (ReloadSpec)

\* The hook after its first page load with an empty store.
ReloadInit ==
    /\ EngineInit
    /\ markdownSummary = Null /\ summaryResponse = <<>>
    /\ summaryCall = "idle" /\ summaryReturned = Undefined
    /\ RegistryInit
    /\ session = DefaultSession
    /\ storage = Stringify(session)

\* switchProvider followed by the save effect its state change triggers.
SwitchProviderSaved ==
    /\ SwitchProviderCall
    /\ session' = [session EXCEPT !.currentProvider = currentProvider']
    /\ storage' = Stringify(session')
    /\ UNCHANGED <<modelFetch, engineVars, summaryVars>>

\* The page is loaded again: the hook starts from its useState defaults
\* with a new LLMProviderManager, the load effect applies the record, the
\* save effects write the state; pending fetches die with the old page.
Reload ==
    /\ session' = LoadFromStorage(storage, DefaultSession)
    /\ storage' = Stringify(session')
    /\ currentProvider' = session'.currentProvider
    /\ llmManager' = NewManager
    /\ modelFetch' = <<>>
    /\ registryCall' = [op |-> "reload"]
    /\ UNCHANGED <<engineVars, summaryVars>>

ReloadNext == SwitchProviderSaved \/ UpdateApiKey \/ FetchSettles \/ Reload

ReloadSpec == ReloadInit /\ [][ReloadNext]_vars

\* C36: the provider id the hook exposes is the id of the adapter the
\* registry uses for the next generation request, also right after the
\* stored state was loaded.
C36_ProviderIdMatchesRegistry == currentProvider = llmManager.currentProvider

\* -------------------------------------------------------------------
\* Generation calls while the registry changes (SessionSpec)

\* The request processQueue hands to llmManager.generate: messages only.
PromptRequest == [messages |-> "prompt"]

\* Variant of ServingAdapter: the adapter is looked up when the backend
\* answers.
ServingAdapter_Current(call) == llmManager.providers[llmManager.currentProvider]

\* The adapter whose generate serves a suspended call: the object
\* getCurrentProvider returned when generate was called.
ServingAdapter(call) == call.adapter

\* What llmManager.generate settles with for a suspended call when the
\* backend answers with `reply`.
ServedResult(call, reply) ==
    AdapterGenerate(ServingAdapter(call), LlmRequest(PromptRequest, call.config), reply)

\* A suspended generate settles and processQueue runs to its end;
\* registryCall keeps the result, what the adapter taken at the call answers
\* for the request built at the call, and whether that adapter is still the
\* one the registry holds as current.
Served ==
    /\ \E i \in DOMAIN inflight, reply \in Replies :
         LET result == ServedResult(inflight[i], reply) IN
         /\ IF result.kind = "response"
            THEN ResolveCall(i, result.content)
            ELSE RejectCall(i)
         /\ registryCall' =
              [op |-> "served",
               result |-> result,
               atCall |-> AdapterGenerate(inflight[i].adapter,
                                          LlmRequest(PromptRequest, inflight[i].config),
                                          reply),
               replaced |-> inflight[i].adapter # ActiveAdapter]
    /\ NotPromoted
    /\ UNCHANGED <<llmManager, currentProvider, modelFetch, summaryVars, storageVars>>

\* The hook with one message submitted and nothing else done yet.
SessionInit ==
    /\ queue = Enqueue(<<>>, NewMessage(1, "a"))
    /\ messages = <<NewMessage(1, "a")>>
    /\ stats = [totalMessages |-> 1, processedMessages |-> 0,
                pendingMessages |-> 1, lastProcessedAt |-> 0]
    /\ agentContext = [conversationHistory |-> <<>>,
                       lastProcessedAt |-> 0,
                       processingStrategy |-> "accumulate"]
    /\ isProcessing = FALSE
    /\ autoProcess = TRUE
    /\ processingRef = FALSE
    /\ inflight = <<>>
    /\ recheckTimers = 0
    /\ autoTimer = TRUE
    /\ nextId = 2
    /\ requests = <<>>
    /\ startedBy = <<>>
    /\ submits = 1
    /\ drainCalls = 0
    /\ blocked = 0
    /\ drainResult = "none"
    /\ lastOutcome = "none"
    /\ late = {}
    /\ failedIds = {}
    /\ promoted = 0
    /\ switchedOn = {}
    /\ markdownSummary = Null
    /\ summaryResponse = <<>>
    /\ summaryCall = "idle"
    /\ summaryReturned = Undefined
    /\ RegistryInit
    /\ StorageIdle

SessionNext ==
    \/ ProcessQueue
    \/ AutoTimerFires
    \/ RecheckTimer
    \/ Served
    \/ SwitchProvider
    \/ UpdateApiKey
    \/ FetchSettles

SessionSpec == SessionInit /\ [][SessionNext]_vars

====
